---- MODULE Spec2Model ----
(***************************************************************************)
(* Model of app/chat/chat.py: a websocket chat relay on one asyncio loop.  *)
(* Every coroutine runs atomically between two awaits; each action below   *)
(* is one such stretch of handle_ws_connection, send, receive or           *)
(* get_history.  Strings are sequences of one-character strings.           *)
(***************************************************************************)
EXTENDS Integers, Sequences, FiniteSets, TLC

\* ---------------------------------------------------------------- bounds
\* events of the environment in one behaviour: connections opened, frames
\* sent by clients, clients going away, redis failures, ended streams
MaxEvents == 4

\* chat_settings.history_length (configuration value read by get_history)
history_length == 2

Conns == 1..MaxEvents

\* ---------------------------------------------------------------- strings
UserIds == { <<"a">>, <<"b">> }
NoUser == <<>>
NoChan == <<>>

\* text frames a client may send: valid to a, valid to b (two bodies),
\* no space, no leading '@'
Frames ==
  { <<"@", "a", " ", "x">>,
    <<"@", "b", " ", "x">>,
    <<"@", "b", " ", "y">>,
    <<"@", "b">>,
    <<"x">> }

ErrInvalid ==
  <<"E","R","R","O","R",":"," ","I","n","v","a","l","i","d"," ",
    "m","e","s","s","a","g","e">>
ErrNotActive ==
  <<"E","R","R","O","R",":"," ","U","s","e","r"," ","i","s"," ",
    "n","o","t"," ","a","c","t","i","v","e">>
ErrAlreadyActive ==
  <<"E","R","R","O","R",":"," ","U","s","e","r"," ","i","s"," ",
    "a","l","r","e","a","d","y"," ","a","c","t","i","v","e">>

\* ---------------------------------------------------------------- codec
\* validate_message without the test for a space
validate_message_startswith(message) ==
  /\ Len(message) >= 1
  /\ message[1] = "@"

validate_message(message) ==
  /\ Len(message) >= 1
  /\ message[1] = "@"
  /\ \E i \in 1..Len(message) : message[i] = " "

\* one channel name for every user_id
encode_channel_shared(user_id) ==
  <<"c","h","a","n","n","e","l","_">>

encode_channel(user_id) ==
  <<"c","h","a","n","n","e","l","_">> \o user_id

encode_history_list(user_id) ==
  <<"h","i","s","t","o","r","y","_","l","i","s","t","_">> \o user_id

encode_messsage(message, user_id) ==
  <<"@">> \o user_id \o <<" ">> \o message

\* index of the first space of s (0 when there is none)
FirstSpace(s) ==
  IF \E i \in 1..Len(s) : s[i] = " "
  THEN CHOOSE i \in 1..Len(s) :
         /\ s[i] = " "
         /\ \A j \in 1..(i - 1) : s[j] # " "
  ELSE 0

\* message[1:].split(' ') keeping the first two parts
decode_message_split_all(message) ==
  LET rest == SubSeq(message, 2, Len(message))
      i == FirstSpace(rest)
      tail == SubSeq(rest, i + 1, Len(rest))
      j == FirstSpace(tail)
  IN  << SubSeq(rest, 1, i - 1),
         IF j = 0 THEN tail ELSE SubSeq(tail, 1, j - 1) >>

\* message[1:].split(' ', 1); called on validated messages only
decode_message(message) ==
  LET rest == SubSeq(message, 2, Len(message))
      i == FirstSpace(rest)
  IN  << SubSeq(rest, 1, i - 1), SubSeq(rest, i + 1, Len(rest)) >>

\* ---------------------------------------------------------------- redis
\* LPUSH key value
\* RPUSH in place of LPUSH
RPush(list, value) == Append(list, value)

LPush(list, value) == <<value>> \o list

\* LRANGE key start stop: inclusive, 0-based, negative counts from the end
LRange(list, start, stop) ==
  LET n == Len(list)
      s0 == IF start < 0 THEN n + start ELSE start
      e0 == IF stop < 0 THEN n + stop ELSE stop
      s == IF s0 < 0 THEN 0 ELSE s0
      e == IF e0 >= n THEN n - 1 ELSE e0
  IN  IF s > e THEN <<>> ELSE SubSeq(list, s + 1, e + 1)

HistKeys == { encode_history_list(u) : u \in UserIds }
Channels == { encode_channel(u) : u \in UserIds }

\* ---------------------------------------------------------------- state
VARIABLES
  nconn,         \* number of connections opened so far
  user,          \* user[c]: user_id of connection c
  hpc,           \* position of handle_ws_connection(c)
  active_users,  \* the module-level set
  peer,          \* "open" / "dropped": the client side of the websocket
  wsClosed,      \* ws.close() was called on c
  outbox,        \* text frames sent to the client on c
  spc,           \* position of the send task of c
  rpc,           \* position of the receive task of c
  scancel,       \* task.cancel() requested on the send task
  rcancel,       \* task.cancel() requested on the receive task
  subChan,       \* channel the pubsub of c is subscribed to
  inbox,         \* messages queued on the pubsub of c
  sdata,         \* message['data'] being forwarded by send
  raw_message,   \* frame being processed by receive
  history,       \* redis lists, by key
  messages,      \* list returned by a get_history call, until its caller has it
  nevents,       \* events of the environment so far (bounded by MaxEvents)
  accepted,      \* log: frames that passed both checks, in read order, with
                 \* the recipient's sessions at the time of the check
  published,     \* log: successful publishes, in bus order
  removed,       \* removed[c]: number of active_users.remove calls by c
  unsubscribed   \* unsubscribed[c]: number of pubsub.unsubscribe calls by c

vars == << nconn, user, hpc, active_users, peer, wsClosed, outbox, spc, rpc,
           scancel, rcancel, subChan, inbox, sdata, raw_message, history,
           messages, nevents, accepted, published, removed,
           unsubscribed >>

hvars == << nconn, user, hpc, active_users, wsClosed, removed >>
svars == << spc, scancel, subChan, inbox, sdata, unsubscribed >>
rvars == << rpc, rcancel, raw_message >>
busvars == << history, accepted, published >>

Event ==
  /\ nevents < MaxEvents
  /\ nevents' = nevents + 1

NoEvent == UNCHANGED nevents

TaskDone == { "returned", "cancelled", "failed" }

\* sessions between line 93 and line 107 for user_id u
Running(u) == { d \in Conns : hpc[d] = "wait" /\ user[d] = u }

Init ==
  /\ nconn = 0
  /\ user = [c \in Conns |-> NoUser]
  /\ hpc = [c \in Conns |-> "idle"]
  /\ active_users = {}
  /\ peer = [c \in Conns |-> "open"]
  /\ wsClosed = [c \in Conns |-> FALSE]
  /\ outbox = [c \in Conns |-> <<>>]
  /\ spc = [c \in Conns |-> "none"]
  /\ rpc = [c \in Conns |-> "none"]
  /\ scancel = [c \in Conns |-> FALSE]
  /\ rcancel = [c \in Conns |-> FALSE]
  /\ subChan = [c \in Conns |-> NoChan]
  /\ inbox = [c \in Conns |-> <<>>]
  /\ sdata = [c \in Conns |-> <<>>]
  /\ raw_message = [c \in Conns |-> <<>>]
  /\ history = [k \in HistKeys |-> <<>>]
  /\ messages = <<>>
  /\ nevents = 0
  /\ accepted = <<>>
  /\ published = <<>>
  /\ removed = [c \in Conns |-> 0]
  /\ unsubscribed = [c \in Conns |-> 0]

\* ------------------------------------------------ the client / transport
\* a client opens a websocket for user_id u; the handler awaits ws.accept()
Connect(u) ==
  /\ Event
  /\ nconn' = nconn + 1
  /\ hpc[nconn + 1] = "idle"
  /\ hpc' = [hpc EXCEPT ![nconn + 1] = "accept"]
  /\ user' = [user EXCEPT ![nconn + 1] = u]
  /\ UNCHANGED << active_users, peer, wsClosed, outbox, removed >>
  /\ UNCHANGED << svars, rvars, busvars >>
  /\ messages' = <<>>

\* the client goes away while its handler is at an await that uses the
\* websocket (line 87, or the tasks of lines 96-99)
PeerDrop(c) ==
  /\ Event
  /\ hpc[c] \in { "rejectSend", "wait" }
  /\ peer[c] = "open"
  /\ peer' = [peer EXCEPT ![c] = "dropped"]
  /\ UNCHANGED << hvars, outbox, svars, rvars, busvars >>
  /\ messages' = <<>>

\* ------------------------------------------------ handle_ws_connection
\* Admit without the membership test of line 86
AdmitUnchecked(c) ==
  /\ hpc[c] = "accept"
  /\ active_users' = active_users \cup { user[c] }
  /\ spc' = [spc EXCEPT ![c] = "start"]
  /\ rpc' = [rpc EXCEPT ![c] = "recv"]
  /\ hpc' = [hpc EXCEPT ![c] = "wait"]
  /\ UNCHANGED << nconn, user, peer, wsClosed, outbox, removed, scancel,
                  subChan, inbox, sdata, unsubscribed, rcancel, raw_message,
                  busvars >>
  /\ messages' = <<>>
  /\ NoEvent

\* lines 86, 93-99: membership test fails, add, create both tasks, wait
Admit(c) ==
  /\ hpc[c] = "accept"
  /\ user[c] \notin active_users
  /\ active_users' = active_users \cup { user[c] }
  /\ spc' = [spc EXCEPT ![c] = "start"]
  /\ rpc' = [rpc EXCEPT ![c] = "recv"]
  /\ hpc' = [hpc EXCEPT ![c] = "wait"]
  /\ UNCHANGED << nconn, user, peer, wsClosed, outbox, removed, scancel,
                  subChan, inbox, sdata, unsubscribed, rcancel, raw_message,
                  busvars >>
  /\ messages' = <<>>
  /\ NoEvent

\* lines 86-87: membership test succeeds, the notice is about to be sent
Reject(c) ==
  /\ hpc[c] = "accept"
  /\ user[c] \in active_users
  /\ hpc' = [hpc EXCEPT ![c] = "rejectSend"]
  /\ UNCHANGED << nconn, user, active_users, wsClosed, removed, peer, outbox >>
  /\ UNCHANGED << svars, rvars, busvars >>
  /\ messages' = <<>>
  /\ NoEvent

\* line 87: await ws.send_text('ERROR: User is already active')
RejectNotice(c) ==
  /\ hpc[c] = "rejectSend"
  /\ peer[c] = "open"
  /\ outbox' = [outbox EXCEPT ![c] = Append(@, ErrAlreadyActive)]
  /\ hpc' = [hpc EXCEPT ![c] = "rejectClose"]
  /\ UNCHANGED << nconn, user, active_users, wsClosed, removed, peer >>
  /\ UNCHANGED << svars, rvars, busvars >>
  /\ messages' = <<>>
  /\ NoEvent

\* line 87 on a dropped connection: send_text raises, the handler is left
RejectNoticeFail(c) ==
  /\ hpc[c] = "rejectSend"
  /\ peer[c] = "dropped"
  /\ hpc' = [hpc EXCEPT ![c] = "crashed"]
  /\ UNCHANGED << nconn, user, active_users, wsClosed, removed, peer, outbox >>
  /\ UNCHANGED << svars, rvars, busvars >>
  /\ messages' = <<>>
  /\ NoEvent

\* RejectClose followed by the cleanup of line 107
RejectCloseUnregisters(c) ==
  /\ hpc[c] = "rejectClose"
  /\ wsClosed' = [wsClosed EXCEPT ![c] = TRUE]
  /\ hpc' = [hpc EXCEPT ![c] = "rejected"]
  /\ active_users' = active_users \ { user[c] }
  /\ UNCHANGED << nconn, user, removed, peer, outbox >>
  /\ UNCHANGED << svars, rvars, busvars >>
  /\ messages' = <<>>
  /\ NoEvent

\* lines 88-91: await ws.close(); return
RejectClose(c) ==
  /\ hpc[c] = "rejectClose"
  /\ wsClosed' = [wsClosed EXCEPT ![c] = TRUE]
  /\ hpc' = [hpc EXCEPT ![c] = "rejected"]
  /\ UNCHANGED << nconn, user, active_users, removed, peer, outbox >>
  /\ UNCHANGED << svars, rvars, busvars >>
  /\ messages' = <<>>
  /\ NoEvent

\* line 107, set.remove(elem): the set without elem; KeyError when elem is
\* not a member
remove(set, elem) ==
  [raises |-> elem \notin set, set |-> set \ { elem }]

\* SessionEnd that re-raises the exception of a failed task before line 104
SessionEndReraises(c) ==
  /\ hpc[c] = "wait"
  /\ spc[c] \in TaskDone \/ rpc[c] \in TaskDone
  /\ IF "failed" \in { spc[c], rpc[c] }
     THEN /\ hpc' = [hpc EXCEPT ![c] = "crashed"]
          /\ UNCHANGED << active_users, removed, scancel, rcancel >>
     ELSE /\ scancel' = [scancel EXCEPT ![c] = spc[c] \notin TaskDone]
          /\ rcancel' = [rcancel EXCEPT ![c] = rpc[c] \notin TaskDone]
          /\ active_users' = active_users \ { user[c] }
          /\ removed' = [removed EXCEPT ![c] = @ + 1]
          /\ hpc' = [hpc EXCEPT ![c] = "closed"]
  /\ UNCHANGED << nconn, user, wsClosed, peer, outbox, spc, subChan, inbox,
                  sdata, unsubscribed, rpc, raw_message, busvars >>
  /\ messages' = <<>>
  /\ NoEvent

\* SessionEnd without line 107
SessionEndKeepsUser(c) ==
  /\ hpc[c] = "wait"
  /\ spc[c] \in TaskDone \/ rpc[c] \in TaskDone
  /\ scancel' = [scancel EXCEPT ![c] = spc[c] \notin TaskDone]
  /\ rcancel' = [rcancel EXCEPT ![c] = rpc[c] \notin TaskDone]
  /\ removed' = [removed EXCEPT ![c] = @ + 1]
  /\ hpc' = [hpc EXCEPT ![c] = "closed"]
  /\ UNCHANGED << nconn, user, wsClosed, peer, outbox, spc, subChan, inbox,
                  sdata, unsubscribed, rpc, raw_message, busvars,
                  active_users >>
  /\ messages' = <<>>
  /\ NoEvent

\* SessionEnd without lines 104-105
SessionEndNoCancel(c) ==
  /\ hpc[c] = "wait"
  /\ spc[c] \in TaskDone \/ rpc[c] \in TaskDone
  /\ IF user[c] \in active_users
     THEN /\ active_users' = active_users \ { user[c] }
          /\ removed' = [removed EXCEPT ![c] = @ + 1]
          /\ hpc' = [hpc EXCEPT ![c] = "closed"]
     ELSE /\ hpc' = [hpc EXCEPT ![c] = "crashed"]
          /\ UNCHANGED << active_users, removed >>
  /\ UNCHANGED << nconn, user, wsClosed, peer, outbox, spc, subChan, inbox,
                  sdata, unsubscribed, rpc, raw_message, busvars,
                  scancel, rcancel >>
  /\ messages' = <<>>
  /\ NoEvent

\* lines 99-108: asyncio.wait returns once a task is done; cancel the
\* pending ones, remove the user (KeyError when absent)
SessionEnd(c) ==
  /\ hpc[c] = "wait"
  /\ spc[c] \in TaskDone \/ rpc[c] \in TaskDone
  /\ scancel' = [scancel EXCEPT ![c] = spc[c] \notin TaskDone]
  /\ rcancel' = [rcancel EXCEPT ![c] = rpc[c] \notin TaskDone]
  /\ IF ~remove(active_users, user[c]).raises
     THEN /\ active_users' = remove(active_users, user[c]).set
          /\ removed' = [removed EXCEPT ![c] = @ + 1]
          /\ hpc' = [hpc EXCEPT ![c] = "closed"]
     ELSE /\ hpc' = [hpc EXCEPT ![c] = "crashed"]
          /\ UNCHANGED << active_users, removed >>
  /\ UNCHANGED << nconn, user, wsClosed, peer, outbox, spc, subChan, inbox,
                  sdata, unsubscribed, rpc, raw_message, busvars >>
  /\ messages' = <<>>
  /\ NoEvent

\* ---------------------------------------------------------------- send
\* the send task leaves its with-block: the redis connection is released
SendExit(c, result) ==
  /\ spc' = [spc EXCEPT ![c] = result]
  /\ subChan' = [subChan EXCEPT ![c] = NoChan]
  /\ inbox' = [inbox EXCEPT ![c] = <<>>]
  /\ sdata' = [sdata EXCEPT ![c] = <<>>]

\* lines 37-41: pubsub.subscribe(channel); redis confirms on the stream
SendSubscribe(c) ==
  /\ spc[c] = "start"
  /\ ~scancel[c]
  /\ subChan' = [subChan EXCEPT ![c] = encode_channel(user[c])]
  /\ inbox' = [inbox EXCEPT ![c] =
                 Append(@, [type |-> "subscribe", data |-> <<>>])]
  /\ spc' = [spc EXCEPT ![c] = "listen"]
  /\ UNCHANGED << hvars, peer, outbox, scancel, sdata, unsubscribed, rvars, busvars >>
  /\ messages' = <<>>
  /\ NoEvent

\* line 41 raises RedisError (line 49)
SendSubscribeError(c) ==
  /\ Event
  /\ spc[c] = "start"
  /\ ~scancel[c]
  /\ SendExit(c, "returned")
  /\ UNCHANGED << hvars, peer, outbox, scancel, unsubscribed, rvars, busvars >>
  /\ messages' = <<>>

\* lines 43-44: the next item of pubsub.listen(); only 'message' items are
\* forwarded
SendListen(c) ==
  /\ spc[c] = "listen"
  /\ ~scancel[c]
  /\ inbox[c] # <<>>
  /\ inbox' = [inbox EXCEPT ![c] = Tail(@)]
  /\ IF Head(inbox[c]).type = "message"
     THEN /\ sdata' = [sdata EXCEPT ![c] = Head(inbox[c]).data]
          /\ spc' = [spc EXCEPT ![c] = "sendText"]
     ELSE UNCHANGED << sdata, spc >>
  /\ UNCHANGED << hvars, peer, outbox, scancel, subChan, unsubscribed, rvars, busvars >>
  /\ messages' = <<>>
  /\ NoEvent

\* line 43 raises RedisError (line 49)
SendListenError(c) ==
  /\ Event
  /\ spc[c] = "listen"
  /\ ~scancel[c]
  /\ SendExit(c, "returned")
  /\ UNCHANGED << hvars, peer, outbox, scancel, unsubscribed, rvars, busvars >>
  /\ messages' = <<>>

\* lines 43, 47: the stream of pubsub.listen() ends; pubsub.unsubscribe,
\* then the task returns (nothing else reads the ended stream, so the await
\* of line 47 is taken in the same step)
SendStreamEnd(c) ==
  /\ Event
  /\ spc[c] = "listen"
  /\ ~scancel[c]
  /\ unsubscribed' = [unsubscribed EXCEPT ![c] = @ + 1]
  /\ SendExit(c, "returned")
  /\ UNCHANGED << hvars, peer, outbox, scancel, rvars, busvars >>
  /\ messages' = <<>>

\* line 45: ws.send_text(message['data'])
SendForward(c) ==
  /\ spc[c] = "sendText"
  /\ ~scancel[c]
  /\ peer[c] = "open"
  /\ outbox' = [outbox EXCEPT ![c] = Append(@, sdata[c])]
  /\ sdata' = [sdata EXCEPT ![c] = <<>>]
  /\ spc' = [spc EXCEPT ![c] = "listen"]
  /\ UNCHANGED << hvars, peer, scancel, subChan, inbox, unsubscribed, rvars, busvars >>
  /\ messages' = <<>>
  /\ NoEvent

\* line 45 on a dropped connection: WebSocketDisconnect (line 51), or an
\* exception of the transport that send does not catch
SendForwardFail(c) ==
  /\ spc[c] = "sendText"
  /\ ~scancel[c]
  /\ peer[c] = "dropped"
  /\ \E result \in { "returned", "failed" } : SendExit(c, result)
  /\ UNCHANGED << hvars, peer, outbox, scancel, unsubscribed, rvars, busvars >>
  /\ messages' = <<>>
  /\ NoEvent

\* CancelledError is thrown into the task at its pending await; it is not
\* caught by lines 49-52
SendCancelled(c) ==
  /\ scancel[c]
  /\ spc[c] \notin TaskDone
  /\ SendExit(c, "cancelled")
  /\ UNCHANGED << hvars, peer, outbox, scancel, unsubscribed, rvars, busvars >>
  /\ messages' = <<>>
  /\ NoEvent

\* ---------------------------------------------------------------- receive
\* conn.publish: every pubsub subscribed to the channel gets the message
Deliver(inb, channel, data) ==
  [d \in Conns |->
     IF subChan[d] = channel
     THEN Append(inb[d], [type |-> "message", data |-> data])
     ELSE inb[d]]

RecvExit(c, result) ==
  /\ rpc' = [rpc EXCEPT ![c] = result]
  /\ raw_message' = [raw_message EXCEPT ![c] = <<>>]

RecvLoop(c) == RecvExit(c, "recv")

\* ReadFrame without the test of line 65
ReadFrameNoPresence(c, f) ==
  /\ Event
  /\ rpc[c] = "recv"
  /\ ~rcancel[c]
  /\ peer[c] = "open"
  /\ raw_message' = [raw_message EXCEPT ![c] = f]
  /\ IF ~validate_message(f)
     THEN /\ rpc' = [rpc EXCEPT ![c] = "sendInvalid"]
          /\ UNCHANGED accepted
     ELSE LET dest_user_id == decode_message(f)[1]
              message == decode_message(f)[2]
          IN  IF FALSE
              THEN /\ rpc' = [rpc EXCEPT ![c] = "sendInactive"]
                   /\ UNCHANGED accepted
              ELSE /\ rpc' = [rpc EXCEPT ![c] = "publish"]
                   /\ accepted' = Append(accepted,
                        [conn |-> c, dest |-> dest_user_id,
                         data |-> encode_messsage(message, user[c]),
                         to |-> Running(dest_user_id)])
  /\ UNCHANGED << hvars, peer, outbox, svars, rcancel, history, published >>
  /\ messages' = <<>>

\* ReadFrame that does not wait for the publish of the previous frame
ReadFramePipelined(c, f) ==
  /\ Event
  /\ rpc[c] \in { "recv", "publish" }
  /\ ~rcancel[c]
  /\ peer[c] = "open"
  /\ raw_message' = [raw_message EXCEPT ![c] = f]
  /\ IF ~validate_message(f)
     THEN /\ rpc' = [rpc EXCEPT ![c] = "sendInvalid"]
          /\ UNCHANGED accepted
     ELSE LET dest_user_id == decode_message(f)[1]
              message == decode_message(f)[2]
          IN  IF dest_user_id \notin active_users
              THEN /\ rpc' = [rpc EXCEPT ![c] = "sendInactive"]
                   /\ UNCHANGED accepted
              ELSE /\ rpc' = [rpc EXCEPT ![c] = "publish"]
                   /\ accepted' = Append(accepted,
                        [conn |-> c, dest |-> dest_user_id,
                         data |-> encode_messsage(message, user[c]),
                         to |-> Running(dest_user_id)])
  /\ UNCHANGED << hvars, peer, outbox, svars, rcancel, history, published >>
  /\ messages' = <<>>

\* lines 58-71: a frame arrives; validate, decode, test the recipient
ReadFrame(c, f) ==
  /\ Event
  /\ rpc[c] = "recv"
  /\ ~rcancel[c]
  /\ peer[c] = "open"
  /\ raw_message' = [raw_message EXCEPT ![c] = f]
  /\ IF ~validate_message(f)
     THEN /\ rpc' = [rpc EXCEPT ![c] = "sendInvalid"]
          /\ UNCHANGED accepted
     ELSE LET dest_user_id == decode_message(f)[1]
              message == decode_message(f)[2]
          IN  IF dest_user_id \notin active_users
              THEN /\ rpc' = [rpc EXCEPT ![c] = "sendInactive"]
                   /\ UNCHANGED accepted
              ELSE /\ rpc' = [rpc EXCEPT ![c] = "publish"]
                   /\ accepted' = Append(accepted,
                        [conn |-> c, dest |-> dest_user_id,
                         data |-> encode_messsage(message, user[c]),
                         to |-> Running(dest_user_id)])
  /\ UNCHANGED << hvars, peer, outbox, svars, rcancel, history, published >>
  /\ messages' = <<>>

\* ReadDisconnect that also removes the user from active_users
ReadDisconnectUnregisters(c) ==
  /\ rpc[c] = "recv"
  /\ ~rcancel[c]
  /\ peer[c] = "dropped"
  /\ RecvExit(c, "returned")
  /\ active_users' = active_users \ { user[c] }
  /\ UNCHANGED << nconn, user, hpc, wsClosed, removed, peer, outbox, svars,
                  rcancel, busvars >>
  /\ messages' = <<>>
  /\ NoEvent

\* line 58 on a dropped connection: WebSocketDisconnect (line 79)
ReadDisconnect(c) ==
  /\ rpc[c] = "recv"
  /\ ~rcancel[c]
  /\ peer[c] = "dropped"
  /\ RecvExit(c, "returned")
  /\ UNCHANGED << hvars, peer, outbox, svars, rcancel, busvars >>
  /\ messages' = <<>>
  /\ NoEvent

\* InvalidNotice with return in place of continue
InvalidNoticeReturns(c) ==
  /\ rpc[c] = "sendInvalid"
  /\ ~rcancel[c]
  /\ peer[c] = "open"
  /\ outbox' = [outbox EXCEPT ![c] = Append(@, ErrInvalid)]
  /\ RecvExit(c, "returned")
  /\ UNCHANGED << hvars, peer, svars, rcancel, busvars >>
  /\ messages' = <<>>
  /\ NoEvent

\* lines 61-62: the notice is sent, continue
InvalidNotice(c) ==
  /\ rpc[c] = "sendInvalid"
  /\ ~rcancel[c]
  /\ peer[c] = "open"
  /\ outbox' = [outbox EXCEPT ![c] = Append(@, ErrInvalid)]
  /\ RecvLoop(c)
  /\ UNCHANGED << hvars, peer, svars, rcancel, busvars >>
  /\ messages' = <<>>
  /\ NoEvent

\* lines 66-67: the notice is sent, continue
InactiveNotice(c) ==
  /\ rpc[c] = "sendInactive"
  /\ ~rcancel[c]
  /\ peer[c] = "open"
  /\ outbox' = [outbox EXCEPT ![c] = Append(@, ErrNotActive)]
  /\ RecvLoop(c)
  /\ UNCHANGED << hvars, peer, svars, rcancel, busvars >>
  /\ messages' = <<>>
  /\ NoEvent

\* lines 61 and 66 on a dropped connection: WebSocketDisconnect (line 79),
\* or an exception of the transport that receive does not catch
NoticeFail(c) ==
  /\ rpc[c] \in { "sendInvalid", "sendInactive" }
  /\ ~rcancel[c]
  /\ peer[c] = "dropped"
  /\ \E result \in { "returned", "failed" } : RecvExit(c, result)
  /\ UNCHANGED << hvars, peer, outbox, svars, rcancel, busvars >>
  /\ messages' = <<>>
  /\ NoEvent

\* the locals of lines 63-71, recomputed from raw_message
DestOf(c) == decode_message(raw_message[c])[1]
\* the encoded message with dest_user_id in the place of user_id
MessageOfDest(c) == encode_messsage(decode_message(raw_message[c])[2], DestOf(c))
MessageOf(c) == encode_messsage(decode_message(raw_message[c])[2], user[c])

\* line 74: conn.publish(channel, message)
Publish(c) ==
  /\ rpc[c] = "publish"
  /\ ~rcancel[c]
  /\ inbox' = Deliver(inbox, encode_channel(DestOf(c)), MessageOf(c))
  /\ published' = Append(published,
       [conn |-> c, channel |-> encode_channel(DestOf(c)),
        data |-> MessageOf(c)])
  /\ rpc' = [rpc EXCEPT ![c] = "lpush"]
  /\ UNCHANGED << hvars, peer, outbox, spc, scancel, subChan, sdata,
                  unsubscribed, rcancel, raw_message, history,
                  accepted >>
  /\ messages' = <<>>
  /\ NoEvent

\* line 75: conn.lpush(history_list, message), then the next iteration
PushHistory(c) ==
  /\ rpc[c] = "lpush"
  /\ ~rcancel[c]
  /\ history' = [history EXCEPT ![encode_history_list(DestOf(c))] =
                   LPush(@, MessageOf(c))]
  /\ RecvLoop(c)
  /\ UNCHANGED << hvars, peer, outbox, svars, rcancel, accepted, published >>
  /\ messages' = <<>>
  /\ NoEvent

\* line 74 or 75 raises RedisError (line 77)
BusError(c) ==
  /\ Event
  /\ rpc[c] \in { "publish", "lpush" }
  /\ ~rcancel[c]
  /\ RecvExit(c, "returned")
  /\ UNCHANGED << hvars, peer, outbox, svars, rcancel, busvars >>
  /\ messages' = <<>>

\* CancelledError is thrown into the task at its pending await; it is not
\* caught by lines 77-80
RecvCancelled(c) ==
  /\ rcancel[c]
  /\ rpc[c] \notin TaskDone
  /\ RecvExit(c, "cancelled")
  /\ UNCHANGED << hvars, peer, outbox, svars, rcancel, busvars >>
  /\ messages' = <<>>
  /\ NoEvent

\* ---------------------------------------------------------------- history
\* get_history with history_length as the stop index of line 115
get_history_stop_off(user_id) ==
  LRange(history[encode_history_list(user_id)], 0, history_length)

get_history(user_id) ==
  LRange(history[encode_history_list(user_id)], 0, history_length - 1)

GetHistory(u) ==
  /\ messages' = get_history(u)
  /\ NoEvent
  /\ UNCHANGED << hvars, peer, outbox, svars, rvars, busvars >>

\* ---------------------------------------------------------------- spec
Next ==
  \/ \E u \in UserIds : Connect(u)
  \/ \E c \in Conns : PeerDrop(c)
  \/ \E c \in Conns : Admit(c)
  \/ \E c \in Conns : Reject(c)
  \/ \E c \in Conns : RejectNotice(c)
  \/ \E c \in Conns : RejectNoticeFail(c)
  \/ \E c \in Conns : RejectClose(c)
  \/ \E c \in Conns : SessionEnd(c)
  \/ \E c \in Conns : SendSubscribe(c)
  \/ \E c \in Conns : SendSubscribeError(c)
  \/ \E c \in Conns : SendListen(c)
  \/ \E c \in Conns : SendListenError(c)
  \/ \E c \in Conns : SendStreamEnd(c)
  \/ \E c \in Conns : SendForward(c)
  \/ \E c \in Conns : SendForwardFail(c)
  \/ \E c \in Conns : SendCancelled(c)
  \/ \E c \in Conns, f \in Frames : ReadFrame(c, f)
  \/ \E c \in Conns : ReadDisconnect(c)
  \/ \E c \in Conns : InvalidNotice(c)
  \/ \E c \in Conns : InactiveNotice(c)
  \/ \E c \in Conns : NoticeFail(c)
  \/ \E c \in Conns : Publish(c)
  \/ \E c \in Conns : PushHistory(c)
  \/ \E c \in Conns : BusError(c)
  \/ \E c \in Conns : RecvCancelled(c)
  \/ \E u \in UserIds : GetHistory(u)

Spec == Init /\ [][Next]_vars

\* the event loop runs every ready coroutine: the handler resumes once
\* asyncio.wait (line 99) has a done task, and a task whose cancellation was
\* requested (line 105) is resumed with CancelledError
FairSpec ==
  /\ Spec
  /\ \A c \in Conns :
       /\ WF_vars(SessionEnd(c))
       /\ WF_vars(SendCancelled(c))
       /\ WF_vars(RecvCancelled(c))

\* ------------------------------------------------ receive on any frame
MaxLen == 5
Alphabet == { "@", " ", "a", "b" }
\* every text frame over Alphabet of at most MaxLen characters
Strings == UNION { [1..n -> Alphabet] : n \in 0..MaxLen }

\* two admitted sessions, a on connection 1 and b on connection 2, each
\* with its send task listening on its channel and its receive task at
\* line 58
InitCodec ==
  /\ nconn = 2
  /\ user = [c \in Conns |-> IF c = 1 THEN <<"a">>
                              ELSE IF c = 2 THEN <<"b">> ELSE NoUser]
  /\ hpc = [c \in Conns |-> IF c \in {1, 2} THEN "wait" ELSE "idle"]
  /\ active_users = UserIds
  /\ peer = [c \in Conns |-> "open"]
  /\ wsClosed = [c \in Conns |-> FALSE]
  /\ outbox = [c \in Conns |-> <<>>]
  /\ spc = [c \in Conns |-> IF c \in {1, 2} THEN "listen" ELSE "none"]
  /\ rpc = [c \in Conns |-> IF c \in {1, 2} THEN "recv" ELSE "none"]
  /\ scancel = [c \in Conns |-> FALSE]
  /\ rcancel = [c \in Conns |-> FALSE]
  /\ subChan = [c \in Conns |-> IF c \in {1, 2}
                                 THEN encode_channel(user[c]) ELSE NoChan]
  /\ inbox = [c \in Conns |-> <<>>]
  /\ sdata = [c \in Conns |-> <<>>]
  /\ raw_message = [c \in Conns |-> <<>>]
  /\ history = [k \in HistKeys |-> <<>>]
  /\ messages = <<>>
  /\ nevents = 2
  /\ accepted = <<>>
  /\ published = <<>>
  /\ removed = [c \in Conns |-> 0]
  /\ unsubscribed = [c \in Conns |-> 0]

\* line 58 returns the frame f, any string; one frame per behaviour
CodecRead(c, f) ==
  /\ nevents = 2
  /\ ReadFrame(c, f)

NextCodec ==
  \/ \E c \in Conns, f \in Strings : CodecRead(c, f)
  \/ \E c \in Conns : InvalidNotice(c)
  \/ \E c \in Conns : InactiveNotice(c)
  \/ \E c \in Conns : Publish(c)
  \/ \E c \in Conns : PushHistory(c)

SpecCodec == InitCodec /\ [][NextCodec]_vars

TypeOK ==
  /\ nconn \in 0..MaxEvents
  /\ active_users \subseteq UserIds
  /\ nevents \in 0..MaxEvents

\* ---------------------------------------------------------------- claims

\* C1: at most one session per user_id is admitted and not yet closed,
\* under every interleaving of the handlers.
C1_SingleSession ==
  \A u \in UserIds : Cardinality(Running(u)) <= 1

\* two connections of one user have passed accept: one runs, one is rejected
C1_Witness ==
  \E c, d \in Conns :
    /\ c # d
    /\ user[c] = user[d]
    /\ hpc[c] = "wait"
    /\ hpc[d] = "rejectSend"

RejectPath == { "rejectSend", "rejectClose", "rejected" }

C2_State ==
  \A c \in Conns :
    /\ hpc[c] \in RejectPath =>
         /\ spc[c] = "none" /\ rpc[c] = "none"
         /\ outbox[c] = IF hpc[c] = "rejectSend" THEN <<>>
                         ELSE << ErrAlreadyActive >>
         /\ wsClosed[c] = (hpc[c] = "rejected")
    /\ hpc[c] = "crashed" =>
         /\ spc[c] = "none" /\ rpc[c] = "none"
         /\ outbox[c] = <<>>
         /\ peer[c] = "dropped"

C2_Step ==
  \A c \in Conns :
    /\ (hpc[c] = "accept" /\ hpc'[c] # "accept") =>
         /\ (hpc'[c] = "wait") = (user[c] \notin active_users)
         /\ (hpc'[c] = "rejectSend") = (user[c] \in active_users)
    /\ ((hpc[c] \in RejectPath \/ hpc'[c] \in RejectPath)
          /\ hpc'[c] # hpc[c]) =>
         /\ active_users' = active_users
         /\ \A d \in Conns \ { c } :
              /\ hpc'[d] = hpc[d] /\ spc'[d] = spc[d] /\ rpc'[d] = rpc[d]
              /\ scancel'[d] = scancel[d] /\ rcancel'[d] = rcancel[d]
              /\ outbox'[d] = outbox[d] /\ inbox'[d] = inbox[d]

\* C2: a connection enters Running iff its user_id is not in active_users
\* at the check of line 86; otherwise it gets the one notice
\* "ERROR: User is already active" and is closed (nothing is sent when the
\* client has gone away before the notice), starts no task, and changes
\* neither active_users nor any other session.
C2_Admission == []C2_State /\ [][C2_Step]_vars

C2_Witness ==
  \E c, d \in Conns :
    /\ user[c] = user[d]
    /\ hpc[c] = "rejected"
    /\ outbox[c] = << ErrAlreadyActive >>
    /\ wsClosed[c]
    /\ hpc[d] = "wait"
    /\ user[d] \in active_users

\* C3: every admitted session runs active_users.remove exactly once: none
\* before its end, one at its end, whichever task finished first and however
\* it finished; the removal is ready as soon as a task is done and never
\* raises.
C3_UnregisterOnce ==
  \A c \in Conns :
    /\ removed[c] = IF hpc[c] = "closed" THEN 1 ELSE 0
    /\ hpc[c] = "crashed" => spc[c] = "none"
    /\ (hpc[c] = "wait" /\ (spc[c] \in TaskDone \/ rpc[c] \in TaskDone)) =>
         /\ user[c] \in active_users
         /\ ENABLED SessionEnd(c)

\* a session closed after one of its tasks died of an uncaught exception
C3_Witness ==
  \E c \in Conns :
    /\ hpc[c] = "closed"
    /\ removed[c] = 1
    /\ "failed" \in { spc[c], rpc[c] }

C4_State ==
  \A c \in Conns :
    (hpc[c] = "closed" /\ Running(user[c]) = {}) => user[c] \notin active_users

C4_Step ==
  \A c \in Conns :
    /\ (hpc[c] = "wait" /\ hpc'[c] # "wait") =>
         /\ hpc'[c] = "closed"
         /\ user[c] \notin active_users'
    /\ ( /\ hpc[c] = "accept" /\ hpc'[c] # "accept"
         /\ \E d \in Conns : hpc[d] = "closed" /\ user[d] = user[c]
         /\ Running(user[c]) = {} ) =>
         hpc'[c] = "wait"

\* C4: once a session is closed its user_id is out of active_users (until
\* a new connection is admitted), and the next connection of that user_id
\* is admitted, not rejected.
C4_ReadmitAfterClose == []C4_State /\ [][C4_Step]_vars

\* a user is running again on a later connection after an earlier session
\* of theirs was closed
C4_Witness ==
  \E c, d \in Conns :
    /\ c < d
    /\ user[c] = user[d]
    /\ hpc[c] = "closed"
    /\ hpc[d] = "wait"
    /\ spc[d] = "listen"

\* ---- receive: notices

C5_State ==
  \A c \in Conns :
    /\ rpc[c] = "sendInvalid" => ~validate_message(raw_message[c])
    /\ rpc[c] \in { "sendInactive", "publish", "lpush" } =>
         validate_message(raw_message[c])

C5_Step ==
  \A c \in Conns :
    /\ (rpc[c] = "recv" /\ rpc'[c] \notin TaskDone \cup { "recv" }) =>
         /\ (rpc'[c] = "sendInvalid") = ~validate_message(raw_message'[c])
         /\ rpc'[c] = "sendInvalid" =>
              UNCHANGED << published, history, accepted, outbox >>
    /\ (rpc[c] = "sendInvalid" /\ rpc'[c] # "sendInvalid") =>
         /\ UNCHANGED << published, history, accepted, active_users, hpc >>
         /\ (peer[c] = "open" /\ ~rcancel[c]) =>
              /\ outbox'[c] = Append(outbox[c], ErrInvalid)
              /\ rpc'[c] = "recv"
              /\ hpc'[c] = "wait"
              /\ user[c] \in active_users'
         /\ rpc'[c] = "recv" => (peer[c] = "open" /\ ~rcancel[c])

\* C5: a frame that does not start with '@' or has no space makes receive
\* send "ERROR: Invalid message" on the sender's connection, with no
\* publish and no history push, and receive goes on reading: the session
\* stays Running and the sender stays in active_users (receive ends there
\* only when the connection is gone or the session is already ending).
C5_InvalidFrame == []C5_State /\ [][C5_Step]_vars

C5_Witness ==
  \E c \in Conns :
    /\ hpc[c] = "wait"
    /\ rpc[c] = "recv"
    /\ user[c] \in active_users
    /\ outbox[c] = << ErrInvalid >>
    /\ published = <<>>

C6_Step ==
  \A c \in Conns :
    /\ (rpc[c] = "recv" /\ rpc'[c] \notin TaskDone \cup { "recv" }) =>
         /\ (rpc'[c] = "sendInactive") =
              ( /\ validate_message(raw_message'[c])
                /\ decode_message(raw_message'[c])[1] \notin active_users )
         /\ rpc'[c] = "sendInactive" =>
              UNCHANGED << published, history, accepted, outbox, inbox >>
    /\ (rpc[c] = "sendInactive" /\ rpc'[c] # "sendInactive") =>
         /\ UNCHANGED << published, history, accepted, inbox, active_users,
                         hpc >>
         /\ (peer[c] = "open" /\ ~rcancel[c]) =>
              /\ outbox'[c] = Append(outbox[c], ErrNotActive)
              /\ rpc'[c] = "recv"
              /\ hpc'[c] = "wait"
         /\ rpc'[c] = "recv" => (peer[c] = "open" /\ ~rcancel[c])

\* C6: a valid frame whose recipient is not in active_users at the test of
\* line 65 makes receive send "ERROR: User is not active" on the sender's
\* connection; nothing is published or pushed for it, and the sender's
\* session goes on Running.
C6_InactiveRecipient == [][C6_Step]_vars

C6_Witness ==
  \E c \in Conns :
    /\ hpc[c] = "wait"
    /\ rpc[c] = "recv"
    /\ outbox[c] = << ErrNotActive >>
    /\ published = <<>>
    /\ \A k \in HistKeys : history[k] = <<>>

\* ---- receive: publish and push

\* the entry of the accepted log for the frame that c is processing
LastAccepted(c) ==
  LET idx == { i \in 1..Len(accepted) : accepted[i].conn = c }
  IN  accepted[CHOOSE i \in idx : \A j \in idx : j <= i]

\* C7: when A's frame "@B body" is accepted while the session of another
\* user B is Running, and that session and its send task are still running
\* when the message is published, the message reaches B's send task (its
\* subscription has it queued for forwarding), also when B's send task has
\* not subscribed yet.
C7_ReachesRecipient ==
  [][\A c \in Conns :
       (rpc[c] = "publish" /\ rpc'[c] = "lpush") =>
         \A d \in LastAccepted(c).to \ { c } :
           (hpc[d] = "wait" /\ spc[d] \notin TaskDone) =>
             /\ inbox'[d] # <<>>
             /\ inbox'[d][Len(inbox'[d])] =
                  [type |-> "message", data |-> MessageOf(c)]]_vars

\* C8: a message that was published is also pushed to the history list: the
\* receive task does not leave line 75 without the push.
C8_PublishedAndPushed ==
  [][\A c \in Conns :
       (rpc[c] = "lpush" /\ rpc'[c] # "lpush") =>
         history'[encode_history_list(DestOf(c))] =
           << MessageOf(c) >> \o history[encode_history_list(DestOf(c))]]_vars

IsPrefix(s, t) ==
  /\ Len(s) <= Len(t)
  /\ \A i \in 1..Len(s) : s[i] = t[i]

DataOf(log) == [i \in 1..Len(log) |-> log[i].data]

AcceptedBy(c, u) ==
  DataOf(SelectSeq(accepted, LAMBDA r : r.conn = c /\ r.dest = u))

PublishedBy(c, u) ==
  DataOf(SelectSeq(published,
                   LAMBDA r : r.conn = c /\ r.channel = encode_channel(u)))

\* C9: the messages one connection has published to one recipient's channel
\* are, in order, the first of the frames it accepted for that recipient:
\* a later frame is never published before an earlier one.
C9_PublishOrder ==
  \A c \in Conns, u \in UserIds :
    IsPrefix(PublishedBy(c, u), AcceptedBy(c, u))

\* two different messages of one sender published to one channel
C9_Witness ==
  \E c \in Conns, u \in UserIds :
    /\ Len(PublishedBy(c, u)) = 2
    /\ PublishedBy(c, u)[1] # PublishedBy(c, u)[2]

\* ---- history

\* the first n entries of a list
Take(list, n) ==
  [i \in 1..(IF Len(list) < n THEN Len(list) ELSE n) |-> list[i]]

C10_State ==
  \A u \in UserIds :
    get_history(u) = Take(history[encode_history_list(u)], history_length)

C10_Step ==
  /\ \A c \in Conns :
       (rpc[c] = "lpush" /\ rpc'[c] = "recv") =>
         /\ history' = [history EXCEPT ![encode_history_list(DestOf(c))] =
                          << MessageOf(c) >> \o @]
         /\ \A u \in UserIds :
              u = DestOf(c) => Head(get_history(u)') = MessageOf(c)
  /\ (\A c \in Conns : ~(rpc[c] = "lpush" /\ rpc'[c] = "recv")) =>
       history' = history
  /\ \A u \in UserIds :
       GetHistory(u) =>
         messages' = Take(history[encode_history_list(u)], history_length)

\* C10: a completed push of a message for B puts it first in what
\* get_history(B) returns; every push goes to the front and nothing else
\* changes a list, so get_history(B) is the newest pushes, newest first,
\* whichever senders pushed.
C10_NewestFirst == []C10_State /\ [][C10_Step]_vars

\* two senders have pushed to the list of b; get_history returned both,
\* the later push first
C10_Witness ==
  LET list == history[encode_history_list(<<"b">>)]
  IN  /\ Len(list) = 2
      /\ list[1][2] # list[2][2]
      /\ messages = list

C11_State ==
  \A u \in UserIds :
    /\ Len(get_history(u)) <= history_length
    /\ history[encode_history_list(u)] = <<>> => get_history(u) = <<>>

C11_Step ==
  \A u \in UserIds :
    GetHistory(u) =>
      /\ Len(messages') <= history_length
      /\ history[encode_history_list(u)] = <<>> => messages' = <<>>
      /\ UNCHANGED << history, active_users, inbox, subChan, published,
                      outbox, hpc, spc, rpc >>

AfterFirstSpace(s) ==
  LET i == CHOOSE k \in 1..Len(s) :
             s[k] = " " /\ \A j \in 1..(k - 1) : s[j] # " "
  IN  [n \in 1..(Len(s) - i) |-> s[i + n]]

Framed(sender, body) == <<"@">> \o sender \o <<" ">> \o body

\* C12: the string published and pushed for an accepted frame is exactly
\* "@<s> <b>": s the sender's user_id, b everything after the first space of
\* the frame, spaces included, possibly empty.
C12_Framing ==
  [][\A c \in Conns :
       /\ Publish(c) =>
            published'[Len(published')].data =
              Framed(user[c], AfterFirstSpace(raw_message[c]))
       /\ PushHistory(c) =>
            \E k \in HistKeys :
              history'[k] =
                << Framed(user[c], AfterFirstSpace(raw_message[c])) >>
                  \o history[k]]_vars

\* a sent "@b  a" (body " a", which starts with a space): "@a  a" was
\* published to b's channel and pushed to b's list
C12_Witness ==
  /\ published # <<>>
  /\ published[1].conn = 1
  /\ published[1].channel = encode_channel(<<"b">>)
  /\ published[1].data = <<"@", "a", " ", " ", "a">>
  /\ history[encode_history_list(<<"b">>)] = << <<"@", "a", " ", " ", "a">> >>

\* s is '@', then anything, then a space somewhere after it
ValidShape(s) == \E i \in 2..Len(s) : s[1] = "@" /\ s[i] = " "

\* C13: a frame is treated as valid iff its first character is '@' and it
\* contains a space; the empty frame is invalid.
C13_Validate ==
  [][\A c \in Conns :
       (rpc[c] = "recv" /\ rpc'[c] \in { "sendInvalid", "sendInactive",
                                         "publish" })
         => (rpc'[c] = "sendInvalid" <=> ~ValidShape(raw_message'[c]))]_vars

\* the empty frame was read and is answered as invalid
C13_Witness ==
  \E c \in Conns :
    /\ rpc[c] = "sendInvalid"
    /\ raw_message[c] = <<>>
    /\ nevents = 3

\* C14: a session is closed (user_id removed) only after both of its tasks
\* have finished: no closed session has a send or receive task still pending.
C14_FlowsFinishedBeforeClosed ==
  \A c \in Conns :
    hpc[c] = "closed" => spc[c] \in TaskDone /\ rpc[c] \in TaskDone

\* C15: whenever a send task that has subscribed to its channel exits, by
\* the end of the stream, WebSocketDisconnect, RedisError or cancellation,
\* it has called unsubscribe exactly once.
C15_UnsubscribeOnExit ==
  [][\A c \in Conns :
       (subChan[c] # NoChan /\ spc[c] \notin TaskDone /\ spc'[c] \in TaskDone)
         => unsubscribed'[c] = 1]_vars

\* C16: under fair scheduling, once one task of a running session has ended
\* (connection dropped, bus error), the other task is cancelled and ends,
\* and the session is closed with its user_id removed from active_users.
C16_SessionDrains ==
  \A c \in Conns :
    (hpc[c] = "wait" /\ (spc[c] \in TaskDone \/ rpc[c] \in TaskDone))
      ~> (/\ hpc[c] = "closed"
          /\ removed[c] = 1
          /\ spc[c] \in TaskDone
          /\ rpc[c] \in TaskDone)

\* a closed session whose receive task returned on a failure and whose send
\* task ended by cancellation
C16_Witness ==
  \E c \in Conns :
    /\ hpc[c] = "closed"
    /\ removed[c] = 1
    /\ rpc[c] = "returned"
    /\ spc[c] = "cancelled"

\* C17: removing a user_id that is not in active_users is a no-op without
\* an error, so a second remove after the one at the end of a session leaves
\* the state as the first one did.
C17_RemoveIdempotent ==
  \A c \in Conns :
    (hpc[c] = "closed" /\ user[c] \notin active_users)
      => remove(active_users, user[c]) =
           [raises |-> FALSE, set |-> active_users]

\* the user_ids of the sessions admitted and not yet closed
Admitted == { user[c] : c \in { d \in Conns : hpc[d] = "wait" } }

C18_Step ==
  /\ active_users' # active_users =>
       \E c \in Conns :
         \/ /\ hpc[c] = "accept" /\ hpc'[c] = "wait"
            /\ user[c] \notin active_users
            /\ active_users' = active_users \cup { user[c] }
         \/ /\ hpc[c] = "wait" /\ hpc'[c] = "closed"
            /\ user[c] \in active_users
            /\ active_users' = active_users \ { user[c] }
  /\ (spc' # spc \/ rpc' # rpc \/ messages' # <<>>) /\ hpc' = hpc =>
       active_users' = active_users
  /\ \A c \in Conns :
       SessionEnd(c) => ~remove(active_users, user[c]).raises

\* C18: active_users is exactly the set of user_ids with a session admitted
\* and not yet closed; only the add at admission and the remove at the end of
\* a session change it, never send, receive or get_history; the remove
\* always finds its user_id in the set.
C18_RegistryExact == [](active_users = Admitted) /\ [][C18_Step]_vars

\* one session has ended and another user's session is running: the set
\* holds the running one only
C18_Witness ==
  \E c, d \in Conns :
    /\ hpc[c] = "closed"
    /\ hpc[d] = "wait"
    /\ user[c] # user[d]
    /\ rpc[d] = "lpush"
    /\ active_users = { user[d] }

Notices == { ErrInvalid, ErrNotActive, ErrAlreadyActive }

\* text was published to the channel of user_id u for a frame addressed to u
RelayedTo(u, text) ==
  /\ \E j \in 1..Len(published) :
       /\ published[j].data = text
       /\ published[j].channel = encode_channel(u)
  /\ \E k \in 1..Len(accepted) :
       /\ accepted[k].data = text
       /\ accepted[k].dest = u

C19_State ==
  \A c \in Conns :
    \A i \in 1..Len(outbox[c]) :
      outbox[c][i] \in Notices \/ RelayedTo(user[c], outbox[c][i])

C19_Step ==
  \A c \in Conns :
    (outbox'[c] # outbox[c] /\ outbox'[c][Len(outbox'[c])] \notin Notices)
      => /\ hpc[c] = "wait"
         /\ ~scancel[c]
         /\ subChan[c] = encode_channel(user[c])

\* C19: every text frame sent on a connection of user X is a notice or a
\* string published to channel_X for a frame addressed to X; nothing
\* addressed to R is forwarded to another user, nor on a connection whose
\* session is already closed.
C19_OnlyOwnChannel == []C19_State /\ [][C19_Step]_vars

\* a frame read from one user's connection was forwarded on the connection
\* of the user it is addressed to
C19_Witness ==
  \E c, d \in Conns :
    /\ user[c] # user[d]
    /\ published # <<>>
    /\ published[1].conn = c
    /\ published[1].channel = encode_channel(user[d])
    /\ outbox[d] = << published[1].data >>
    /\ outbox[c] = <<>>

\* text starts with "@<user_id of connection c> "
SentBy(c, text) ==
  /\ Len(text) >= Len(user[c]) + 2
  /\ SubSeq(text, 1, Len(user[c]) + 2) = <<"@">> \o user[c] \o <<" ">>

C20_State ==
  /\ \A j \in 1..Len(published) :
       /\ hpc[published[j].conn] \in { "wait", "closed" }
       /\ SentBy(published[j].conn, published[j].data)
  /\ \A k \in HistKeys :
       \A i \in 1..Len(history[k]) :
         \E j \in 1..Len(published) : published[j].data = history[k][i]

C20_Step ==
  \A c \in Conns :
    /\ (rpc[c] = "recv" /\ rpc'[c] = "publish") =>
         /\ hpc[c] = "wait"
         /\ user[c] \in active_users
         /\ user' = user
    /\ (rpc[c] = "lpush" /\ rpc'[c] = "recv") =>
         \E k \in HistKeys :
           /\ Len(history'[k]) = Len(history[k]) + 1
           /\ SentBy(c, history'[k][1])
           /\ \E j \in 1..Len(published) :
                /\ published[j].conn = c
                /\ published[j].data = history'[k][1]

\* C20: every string published or pushed starts with "@<id> " where id is
\* the user_id of the session on whose connection the frame was read, and
\* that user_id was in active_users when the frame was read.
C20_SenderIsReader == []C20_State /\ [][C20_Step]_vars

\* b's list holds a message read on a's connection, carrying a's id
C20_Witness ==
  \E c \in Conns :
    /\ user[c] = <<"a">>
    /\ published # <<>>
    /\ published[1].conn = c
    /\ history[encode_history_list(<<"b">>)] = << <<"@", "a", " ", "x">> >>
    /\ published[1].data = <<"@", "a", " ", "x">>
====
